---- MODULE Spec2Model ----
(***************************************************************************)
(* A model of the AgentX assistant: the request classifier and dispatcher  *)
(* of main.py (OrchestratorAgent), the build cascade of q_agent.py         *)
(* (QAgent), the consolidated static-site deploy, and the Terraform        *)
(* teardown script cleanup_terraform.py.                                   *)
(*                                                                         *)
(* Spec        the read-eval-print loop of main.py, one action per         *)
(*             dispatch target of chat(); a build blocks in pc =           *)
(*             "q_stream" while the coding tool's output is streamed.      *)
(* SpecCleanup the teardown script; destroy_terraform_infrastructure       *)
(*             blocks in cl_pc = "destroy_stream" while terraform          *)
(*             destroy's output is streamed.                               *)
(***************************************************************************)
EXTENDS Integers, Sequences, FiniteSets, TLC

VARIABLES
    pc,                    \* main(): "prompt", "q_stream", "exited", "crashed"
    conversation_history,  \* OrchestratorAgent.conversation_history
    last_project_folder,   \* OrchestratorAgent.last_project_folder (NoPath = None)
    last_project_type,     \* OrchestratorAgent.last_project_type ("None" = None)
    cwd,                   \* the process's current working directory
    q_available,           \* QAgent.q_available
    now,                   \* int(time.time())
    requests,              \* number of chat() calls made so far
    project_files,         \* contents of the project directories on disk
    consolidated,          \* terraform_deployments/consolidated on disk
    build,                 \* the frame of the build_website/build_app call in flight
    call,                  \* what the last chat() call was given and what it did
    cl_pc,                 \* cleanup script: "idle", "destroy_stream", "returned"
    cl_cwd,                \* cleanup script: current working directory
    cl_fs,                 \* cleanup script: the directory tree it runs in
    cl_frame,              \* the frame of the destroy call in flight
    cl_call,               \* what the last destroy call was given and what it did
    cmd_pc,                \* one run of the cleanup script: "start", "done"
    cmd_tree,              \* the deployment directories that run scans
    cmd_run,               \* the arguments of that run and what it did
    fn_call                \* one application of a descriptor function

agent_vars == <<pc, conversation_history, last_project_folder, last_project_type,
                cwd, q_available, now, requests, project_files, consolidated,
                build, call>>
cleanup_vars == <<cl_pc, cl_cwd, cl_fs, cl_frame, cl_call>>
command_vars == <<cmd_pc, cmd_tree, cmd_run>>
vars == <<agent_vars, cleanup_vars, command_vars, fn_call>>

(***************************************************************************)
(* Bounds of the model.                                                    *)
(***************************************************************************)
MaxRequests == 2

(***************************************************************************)
(* Paths.  A directory is the sequence of its components from the file     *)
(* system root; a path argument is absolute or relative to the working     *)
(* directory at the time it is used.                                       *)
(***************************************************************************)
NoPath == <<>>
AbsPath(parts) == [abs |-> TRUE, parts |-> parts]
RelPath(parts) == [abs |-> FALSE, parts |-> parts]
abspath(base, p) == IF p.abs THEN p.parts ELSE base \o p.parts
original_dir == <<"home", "agentx">>

(***************************************************************************)
(* The classifier: analyze_request_with_llm.                               *)
(***************************************************************************)
EmptyMembers == [k \in {} |-> ""]
JsonObject(m) == [jtype |-> "object", members |-> m]
JsonOther(t) == [jtype |-> t, members |-> EmptyMembers]

T_WEBSITE_NEW == "{\"type\": \"website\", \"action\": \"build\", \"is_iteration\": false}"
T_WEBSITE_ITER == "{\"type\": \"website\", \"action\": \"build\", \"is_iteration\": true}"
T_APP_WEB_NEW == "{\"type\": \"app\", \"action\": \"build\", \"app_type\": \"web\", \"is_iteration\": false, \"compute_db\": true}"
T_APP_CLI_ITER == "{\"type\": \"app\", \"action\": \"build\", \"app_type\": \"cli\", \"is_iteration\": true}"
T_APP_NOTYPE == "{\"type\": \"app\", \"action\": \"build\"}"
T_Q_CLI == "{\"type\": \"q_cli\", \"action\": \"interact\"}"
T_STATIC_DEPLOY == "{\"type\": \"static_website\", \"action\": \"deploy\"}"
T_APP_DEPLOY == "{\"type\": \"app\", \"action\": \"deploy\", \"compute_db\": true}"
T_APP_DEPLOY_NODB == "{\"type\": \"app\", \"action\": \"deploy\"}"
T_CHAT == "{\"type\": \"conversation\", \"action\": \"chat\"}"
T_NO_TYPE == "{\"intent\": \"website\"}"
T_NO_ACTION == "{\"type\": \"website\"}"
T_ARRAY == "[]"
T_EMPTY == ""
T_PROSE == "This looks like a request to build a website."

\* json.loads on the texts above: the texts in DOMAIN json_documents are the
\* valid JSON documents, every other text raises json.JSONDecodeError.
json_documents ==
    (T_WEBSITE_NEW :> JsonObject([type |-> "website", action |-> "build", is_iteration |-> FALSE])) @@
    (T_WEBSITE_ITER :> JsonObject([type |-> "website", action |-> "build", is_iteration |-> TRUE])) @@
    (T_APP_WEB_NEW :> JsonObject([type |-> "app", action |-> "build", app_type |-> "web",
                                  is_iteration |-> FALSE, compute_db |-> TRUE])) @@
    (T_APP_CLI_ITER :> JsonObject([type |-> "app", action |-> "build", app_type |-> "cli",
                                   is_iteration |-> TRUE])) @@
    (T_APP_NOTYPE :> JsonObject([type |-> "app", action |-> "build"])) @@
    (T_Q_CLI :> JsonObject([type |-> "q_cli", action |-> "interact"])) @@
    (T_STATIC_DEPLOY :> JsonObject([type |-> "static_website", action |-> "deploy"])) @@
    (T_APP_DEPLOY :> JsonObject([type |-> "app", action |-> "deploy", compute_db |-> TRUE])) @@
    (T_APP_DEPLOY_NODB :> JsonObject([type |-> "app", action |-> "deploy"])) @@
    (T_CHAT :> JsonObject([type |-> "conversation", action |-> "chat"])) @@
    (T_NO_TYPE :> JsonObject([intent |-> "website"])) @@
    (T_NO_ACTION :> JsonObject([type |-> "website"])) @@
    (T_ARRAY :> JsonOther("array"))

ResponseTexts == DOMAIN json_documents \cup {T_EMPTY, T_PROSE}

\* One classification call: the API call fails ("error") or answers with a
\* text.
LLMOutcomes ==
    {[api |-> "error", text |-> T_EMPTY]}
    \cup {[api |-> "ok", text |-> t] : t \in ResponseTexts}

\* The outcomes the handlers' own classification call is drawn from: what it
\* contributes is is_iteration, or a value that is no object.
IterationOutcomes ==
    {o \in LLMOutcomes :
        o.api = "ok" => o.text \in {T_WEBSITE_NEW, T_WEBSITE_ITER, T_ARRAY}}

DefaultClassification == JsonObject([type |-> "conversation", action |-> "chat"])

analyze_request_with_llm(outcome) ==
    IF outcome.api # "ok"
    THEN DefaultClassification                      \* except Exception
    ELSE IF outcome.text \in DOMAIN json_documents
         THEN json_documents[outcome.text]          \* return result
         ELSE DefaultClassification                 \* except json.JSONDecodeError

\* dict.get(key, default) on a parsed value known to be an object
dict_get(v, key, default) ==
    IF key \in DOMAIN v.members THEN v.members[key] ELSE default

\* The if/elif chain of chat(): the handler the request is dispatched to, or
\* "raise" where a subscript raises (KeyError on a missing key, TypeError on
\* a value that is no dict).  'and' short-circuits: request_info["action"] is
\* read only in the branches whose type test succeeded.
dispatch(request_info) ==
    IF request_info.jtype # "object" \/ "type" \notin DOMAIN request_info.members
    THEN "raise"
    ELSE LET type == request_info.members["type"]
             has_action == "action" \in DOMAIN request_info.members
             action == dict_get(request_info, "action", "")
         IN  IF type \in {"website", "static_website", "app", "q_cli"} /\ ~has_action
             THEN "raise"
             ELSE IF type = "website" /\ action = "build" THEN "website_build"
             ELSE IF type = "static_website" /\ action = "deploy" THEN "static_website_deploy"
             ELSE IF type = "app" /\ action = "build" THEN "app_build"
             ELSE IF type = "app" /\ action = "deploy"
                     /\ dict_get(request_info, "compute_db", FALSE) THEN "app_deployment"
             ELSE IF type = "q_cli" /\ action = "interact" THEN "q_cli_interaction"
             ELSE "conversation"

(***************************************************************************)
(* The agent's state.                                                      *)
(***************************************************************************)
\* One request text, longer than the 100 characters the classifier's
\* context keeps of a message.
UserInputs ==
    {"build me a todo app with a list of tasks, due dates, priorities, tags and reminders, and give it a dark theme"}

Message(role, content) == [role |-> role, content |-> content]
add_message(history, role, content) == Append(history, Message(role, content))

\* What a project directory holds: the HTML files, the two logs the recovery
\* cascade reads (by what they contain), README.md and package.json.
EmptyDirectory ==
    [html |-> {}, q_output |-> "absent", q_explicit |-> "absent",
     readme |-> FALSE, package_json |-> FALSE]

NoBuild ==
    [kind |-> "none", app_type |-> "", is_iteration |-> FALSE, user_input |-> "",
     project_dir |-> NoPath, original_dir |-> NoPath, child |-> "none",
     reused |-> FALSE]

NoCall ==
    [handler |-> "none", user_input |-> "", llm |-> [api |-> "none", text |-> T_EMPTY],
     request_info |-> DefaultClassification, raised |-> FALSE, outcome |-> "none",
     build_success |-> "n/a", artifact |-> "n/a", html_before |-> {}, writes |-> 0,
     project_dir |-> NoPath,
     cwd_before |-> NoPath, folder_before |-> NoPath, type_before |-> "None",
     folders_listed |-> <<>>, bucket_name |-> "", applies |-> <<>>, uploads |-> <<>>,
     invalidations |-> 0, deploy_success |-> "n/a", attempts |-> <<>>,
     search_failed |-> FALSE, system_prompt |-> [search_section |-> FALSE, web_info |-> ""],
     context |-> <<>>, caught |-> FALSE, returncode |-> 0]

NoConsolidated ==
    [exists |-> FALSE, tfstate |-> FALSE, website_folders |-> <<>>, bucket_name |-> "",
     deployed |-> {}, bucket_names |-> {}]

\* OrchestratorAgent.__init__ and the start of main(): empty history, no last
\* project, the working directory recorded as original_dir; the coding tool is
\* installed or not.
AgentInit ==
    /\ pc = "prompt"
    /\ conversation_history = <<>>
    /\ last_project_folder = NoPath
    /\ last_project_type = "None"
    /\ cwd = original_dir
    /\ q_available \in BOOLEAN
    /\ now = 0
    /\ requests = 0
    /\ project_files = [d \in {} |-> EmptyDirectory]
    /\ consolidated = NoConsolidated
    /\ build = NoBuild
    /\ call = NoCall

\* main() waits for input; requests are counted up to the bound.
AtPrompt == pc = "prompt" /\ requests < MaxRequests

\* The part of chat() every request runs: the user message is added to the
\* history, the request is classified; the wall clock has advanced by dt
\* seconds since the last request.
ChatEntry(user_input, llm, dt) ==
    /\ AtPrompt
    /\ requests' = requests + 1
    /\ now' = now + dt

\* The context analyze_request_with_llm does not append: three messages
\* do not suffice for it.
classifier_context_late(history, folder, type) ==
    [appended |-> FALSE, recent_msgs |-> <<>>, pointer |-> <<>>]

\* The context block analyze_request_with_llm appends to the classifier
\* prompt: with more than two messages in the history, the last six, each
\* cut to 100 characters, and the last-project pointer when it is set.
classifier_context(history, folder, type) ==
    IF Len(history) > 2
    THEN [appended |-> TRUE,
          recent_msgs |->
              LET first == IF Len(history) > 6 THEN Len(history) - 5 ELSE 1
              IN  [k \in 1..(Len(history) - first + 1) |->
                      LET msg == history[first + k - 1]
                      IN  Message(msg.role,
                                  IF Len(msg.content) > 100
                                  THEN SubSeq(msg.content, 1, 100) ELSE msg.content)],
          pointer |-> IF folder # NoPath THEN <<type, folder>> ELSE <<>>]
    ELSE [appended |-> FALSE, recent_msgs |-> <<>>, pointer |-> <<>>]

\* call.context: the contexts of the classifications of this request, the
\* one of chat() first, then the handler's own.
EntryCall(handler, user_input, llm) ==
    [NoCall EXCEPT !.handler = handler, !.user_input = user_input, !.llm = llm,
                   !.context =
                       LET h == add_message(conversation_history, "user", user_input)
                           at_chat == classifier_context(h, last_project_folder,
                                                         last_project_type)
                       IN  IF handler \in {"website_build", "app_build"}
                           THEN <<at_chat,
                                  classifier_context(add_message(h, "user", user_input),
                                                     last_project_folder,
                                                     last_project_type)>>
                           ELSE <<at_chat>>,
                   !.request_info = analyze_request_with_llm(llm),
                   !.cwd_before = cwd, !.folder_before = last_project_folder,
                   !.type_before = last_project_type]

\* main(): the input 'exit' leaves the loop and main() returns: the process
\* ends, and the agent object with it; what it wrote to disk stays.
MainExit ==
    /\ pc = "prompt"
    /\ pc' = "exited"
    /\ conversation_history' = <<>>
    /\ last_project_folder' = NoPath
    /\ last_project_type' = "None"
    /\ call' = NoCall
    /\ UNCHANGED <<cwd, q_available, now, requests, project_files, consolidated, build>>
    /\ UNCHANGED <<cleanup_vars, command_vars, fn_call>>

\* chat() where a subscript of the if/elif chain raises: nothing in chat() or
\* main() catches it, the process ends with a traceback.
ChatRaises ==
    \E llm \in LLMOutcomes :
      /\ AtPrompt
      /\ dispatch(analyze_request_with_llm(llm)) = "raise"
      /\ \E user_input \in UserInputs, dt \in 0..1 :
        /\ ChatEntry(user_input, llm, dt)
        /\ conversation_history' = add_message(conversation_history, "user", user_input)
        /\ call' = [EntryCall("chat", user_input, llm) EXCEPT !.raised = TRUE,
                                                               !.outcome = "raised"]
        /\ pc' = "crashed"
        /\ UNCHANGED <<last_project_folder, last_project_type, cwd, q_available,
                       project_files, consolidated, build>>
        /\ UNCHANGED <<cleanup_vars, command_vars, fn_call>>

\* handle_conversation: the history is sent to the model; the reply is added
\* to the history when the call succeeds.
handle_conversation(history, api_ok) ==
    IF api_ok THEN add_message(history, "assistant", "reply") ELSE history

ChatConversation ==
    \E llm \in LLMOutcomes :
      /\ AtPrompt
      /\ dispatch(analyze_request_with_llm(llm)) = "conversation"
      /\ \E user_input \in UserInputs, dt \in 0..1,
           api_ok \in BOOLEAN :
        /\ ChatEntry(user_input, llm, dt)
        /\ conversation_history' =
               handle_conversation(add_message(conversation_history, "user", user_input), api_ok)
        /\ call' = [EntryCall("conversation", user_input, llm) EXCEPT
                        !.outcome = IF api_ok THEN "replied" ELSE "api_error"]
        /\ pc' = "prompt"
        /\ UNCHANGED <<last_project_folder, last_project_type, cwd, q_available,
                       project_files, consolidated, build>>
        /\ UNCHANGED <<cleanup_vars, command_vars, fn_call>>

\* handle_q_cli_interaction.  Without the tool: web search, then a model call
\* on the history; when that call fails, handle_conversation on a rewritten
\* request.  With the tool: q_chat, optionally enhanced by a web search.
handle_q_cli_interaction(history, user_input, available, api_ok, fallback_ok) ==
    LET h1 == add_message(history, "user", user_input)
    IN  IF ~available
        THEN IF api_ok THEN add_message(h1, "assistant", "reply")
                       ELSE handle_conversation(h1, fallback_ok)
        ELSE add_message(h1, "assistant", "I'll use Amazon Q CLI")

ChatQCli ==
    \E llm \in LLMOutcomes :
      /\ AtPrompt
      /\ dispatch(analyze_request_with_llm(llm)) = "q_cli_interaction"
      /\ \E user_input \in UserInputs, dt \in 0..1,
           api_ok \in BOOLEAN, fallback_ok \in BOOLEAN :
        /\ ChatEntry(user_input, llm, dt)
        /\ conversation_history' =
               handle_q_cli_interaction(
                   add_message(conversation_history, "user", user_input),
                   user_input, q_available, api_ok, fallback_ok)
        /\ call' = [EntryCall("q_cli_interaction", user_input, llm) EXCEPT
                        !.outcome = "answered"]
        /\ pc' = "prompt"
        /\ UNCHANGED <<last_project_folder, last_project_type, cwd, q_available,
                       project_files, consolidated, build>>
        /\ UNCHANGED <<cleanup_vars, command_vars, fn_call>>

(***************************************************************************)
(* QAgent.build_website and QAgent.build_app.                              *)
(***************************************************************************)
web_project_dir(ts) == RelPath(<<"web_project_" \o ToString(ts)>>)
app_project_dir(ts, app_type) ==
    RelPath(<<"app_project_" \o ToString(ts) \o "_" \o app_type>>)

\* How the part of a build before the tool's output is streamed can end:
\* os.makedirs raises (outside the try: the exception leaves build_*),
\* os.chdir raises, or writing prompt.txt or starting the script raises
\* ("setup_raises"; both caught by the outer except), or the script is started.  The direct invocation always
\* raises before it starts the tool (subprocess.run is given bytes as input
\* together with text=True), so the script run_q.sh is what runs the tool; it
\* either closes its output in the end or never does.
StartOutcomes ==
    {"makedirs_raises", "chdir_raises", "setup_raises",
     "spawned_finishes", "spawned_hangs"}

\* build_website/build_app without the os.chdir(original_dir) of the except
\* handler: the fault C10_HandlersRestoreCwd has to detect.
build_exit_cwd_unrestored(current, saved_original_dir, exit) ==
    CASE exit = "return" -> saved_original_dir
      [] OTHER -> current

\* The working directory build_website/build_app leave behind.  The normal
\* exit runs os.chdir(original_dir); the except handler runs it as well when
\* original_dir is bound, and it is unbound only where os.getcwd() or the
\* chdir into the project raised, that is where the directory never changed.
build_exit_cwd(current, saved_original_dir, exit) ==
    CASE exit = "return" -> saved_original_dir
      [] exit = "except" -> saved_original_dir
      [] OTHER -> current

\* serve_website: the two early returns come before the chdir; the normal
\* exit and the except handler chdir back to the directory saved on entry.
ServeOutcomes == {"not_a_directory", "no_html", "served", "exception"}
serve_website_cwd(current, project_dir, outcome) ==
    LET saved_original_dir == current
        inside == project_dir
    IN  CASE outcome \in {"not_a_directory", "no_html"} -> current
          [] outcome = "served" -> saved_original_dir
          [] outcome = "exception" -> saved_original_dir
          [] OTHER -> inside

\* start_app: the directory test comes before the chdir; every later exit
\* (started, failed to start, no package.json, except) chdirs back.
StartAppOutcomes == {"not_a_directory", "not_node", "started", "failed_to_start", "exception"}
start_app_cwd(current, project_dir, outcome) ==
    LET saved_original_dir == current
        inside == project_dir
    IN  CASE outcome = "not_a_directory" -> current
          [] outcome \in {"not_node", "started", "failed_to_start"} -> saved_original_dir
          [] outcome = "exception" -> saved_original_dir
          [] OTHER -> inside

\* What one run of the coding tool leaves in the project directory: the HTML
\* files it wrote, q_output.log (absent when the script died before tee
\* created it), q_explicit_output.log, README.md, package.json, and its exit
\* status.
ToolRun(html, q_output, q_explicit, readme, package_json, returncode) ==
    [html |-> html, q_output |-> q_output, q_explicit |-> q_explicit,
     readme |-> readme, package_json |-> package_json, returncode |-> returncode]
WebsiteToolRuns ==
    {ToolRun({"index.html"}, "plain", "absent", FALSE, FALSE, 0),
     ToolRun({}, "codeblock", "absent", FALSE, FALSE, 0),
     ToolRun({}, "plain", "diff_lines", FALSE, FALSE, 0),
     ToolRun({}, "plain", "absent", FALSE, FALSE, 0),
     ToolRun({}, "plain", "absent", FALSE, FALSE, 1),
     ToolRun({}, "absent", "absent", FALSE, FALSE, 1),
     ToolRun({}, "absent", "diff_lines", FALSE, FALSE, 1)}
AppToolRuns ==
    {ToolRun({}, "plain", "absent", TRUE, TRUE, 0),
     ToolRun({}, "plain", "absent", TRUE, FALSE, 0),
     ToolRun({}, "plain", "absent", FALSE, FALSE, 1)}

tool_effect(dir, run) ==
    [html |-> dir.html \cup run.html,
     q_output |-> IF run.q_output = "absent" THEN dir.q_output ELSE run.q_output,
     q_explicit |-> IF run.q_explicit = "absent" THEN dir.q_explicit ELSE run.q_explicit,
     readme |-> dir.readme \/ run.readme,
     package_json |-> dir.package_json \/ run.package_json]

\* The recovery cascade of build_website on the directory the tool left.
\* 'import re' sits inside the branch that reads q_output.log, which makes re
\* a local name of build_website: it is bound, and html_pattern defined, only
\* if q_output.log exists.
website_cascade(dir) ==
    LET re_bound == dir.q_output # "absent"
        from_output == dir.q_output = "codeblock"
        from_explicit == /\ ~from_output
                         /\ dir.q_explicit = "diff_lines"
                         /\ re_bound          \* html_pattern.search raises otherwise
    IN  IF dir.html # {}
        THEN [raised |-> FALSE, artifact |-> "tool", dir |-> dir]
        ELSE IF from_output \/ from_explicit
        THEN [raised |-> FALSE, artifact |-> "extracted",
              dir |-> [dir EXCEPT !.html = {"index.html"}]]
        ELSE IF re_bound
        THEN [raised |-> FALSE, artifact |-> "synthesized",
              dir |-> [dir EXCEPT !.html = {"index.html"}]]
        ELSE [raised |-> TRUE, artifact |-> "none", dir |-> dir]   \* re.search: UnboundLocalError

\* build_app after the run: a missing README.md is written.
app_cascade(dir) ==
    IF dir.readme
    THEN [raised |-> FALSE, artifact |-> "tool", dir |-> dir]
    ELSE [raised |-> FALSE, artifact |-> "synthesized", dir |-> [dir EXCEPT !.readme = TRUE]]

\* A result that follows the exit status of the tool alone.
build_success_exit_status(returncode, cascade, kind) ==
    ~cascade.raised /\ returncode = 0

\* The result build_website/build_app return after the cascade.
build_success(returncode, cascade, kind) ==
    /\ ~cascade.raised
    /\ \/ returncode = 0
       \/ IF kind = "website" THEN cascade.dir.html # {} ELSE cascade.dir.readme

(***************************************************************************)
(* handle_website_build and handle_app_build.                              *)
(***************************************************************************)
\* web_search: the text of the LLM's answer, or, when the call raises, the
\* text its own except clause returns; no exception leaves the function.
web_search(api_ok) ==
    [raised |-> FALSE,
     text |-> IF api_ok THEN "<search results>"
              ELSE "Error performing web search: <error>"]

\* The system prompt of the code generation when the coding tool is
\* unavailable: the prompt with the search section around web_info, or the
\* plain prompt of the except clause around the call of web_search.
generation_system_prompt(searched) ==
    IF searched.raised THEN [search_section |-> FALSE, web_info |-> ""]
    ELSE [search_section |-> TRUE, web_info |-> searched.text]

\* The last-project pointer after the reset at the top of
\* handle_website_build: a request that is not an iteration clears it.
reset_last_project(is_iteration, folder, type) ==
    IF ~is_iteration THEN <<NoPath, "None">> ELSE <<folder, type>>

\* The directory handle_website_build passes to build_website.
website_project_dir(is_iteration, folder, type) ==
    IF is_iteration /\ folder # NoPath /\ type = "website" THEN folder ELSE NoPath

\* The directory handle_app_build passes to build_app.
app_build_project_dir(is_iteration, folder, type) ==
    IF is_iteration /\ folder # NoPath /\ type \in {"app_web", "app_cli"}
    THEN folder ELSE NoPath

\* The pointer after the build returned: overwritten on success.
\* The pointer update that stores the folder and leaves the kind as it was.
track_project_folder_only(success, project_dir, kind, folder, type) ==
    IF success THEN <<project_dir, type>> ELSE <<folder, type>>

track_project(success, project_dir, kind, folder, type) ==
    IF success THEN <<project_dir, kind>> ELSE <<folder, type>>

\* The handler's tail once build_* has returned `success` for abs_project_dir
\* with the working directory `cwd_after`: on success the pointer is set and
\* the site is served / the web app started; otherwise the model is asked for
\* code.  The handler returns to main()'s prompt.
BuildReturns(kind, app_type, success, abs_project_dir, history, cwd_after, files, c, folder, type) ==
    LET tracked == track_project(success, abs_project_dir,
                                 IF kind = "website" THEN "website" ELSE "app_" \o app_type,
                                 folder, type)
    IN  /\ last_project_folder' = tracked[1]
        /\ last_project_type' = tracked[2]
        /\ conversation_history' =
               IF kind = "app" /\ ~success
               THEN add_message(history, "assistant", "Q CLI encountered an issue")
               ELSE history
        /\ cwd' \in IF ~success THEN {cwd_after}
                    ELSE IF kind = "website"
                    THEN {serve_website_cwd(cwd_after, abs_project_dir, serve) :
                              serve \in ServeOutcomes}
                    ELSE IF app_type = "web"
                    THEN {start_app_cwd(cwd_after, abs_project_dir, started) :
                              started \in StartAppOutcomes}
                    ELSE {cwd_after}
        /\ project_files' = files
        /\ call' = [c EXCEPT !.build_success = IF success THEN "yes" ELSE "no",
                             !.outcome = "returned"]
        /\ build' = NoBuild
        /\ pc' = "prompt"

\* build_website/build_app up to the point where the tool's output is
\* streamed, called by the handler with the pointer already at <<folder, type>>.
BuildStarts(kind, app_type, is_iteration, user_input, arg_dir, ts, start, history, c, folder, type) ==
    LET reuse == arg_dir # NoPath /\ arg_dir \in DOMAIN project_files
        project_dir == IF reuse THEN AbsPath(arg_dir)
                       ELSE IF kind = "website" THEN web_project_dir(ts)
                       ELSE app_project_dir(ts, app_type)
        abs_project_dir == abspath(cwd, project_dir)
        files == IF abs_project_dir \in DOMAIN project_files THEN project_files
                 ELSE project_files @@ (abs_project_dir :> EmptyDirectory)
        c1 == [c EXCEPT !.project_dir = abs_project_dir,
                        !.html_before = files[abs_project_dir].html]
    IN  IF start = "makedirs_raises"
        THEN /\ ~reuse
             /\ pc' = "crashed"
             /\ conversation_history' = history
             /\ call' = [c1 EXCEPT !.raised = TRUE, !.outcome = "raised"]
             /\ last_project_folder' = folder
             /\ last_project_type' = type
             /\ UNCHANGED <<cwd, project_files, build>>
        ELSE IF start \in {"chdir_raises", "setup_raises"}
        THEN BuildReturns(kind, app_type, FALSE, abs_project_dir, history,
                          build_exit_cwd(IF start = "chdir_raises" THEN cwd
                                         ELSE abs_project_dir, cwd, "except"),
                          files, [c1 EXCEPT !.caught = TRUE], folder, type)
        ELSE /\ pc' = "q_stream"
             /\ last_project_folder' = folder
             /\ last_project_type' = type
             /\ cwd' = abs_project_dir                       \* os.chdir(project_dir)
             /\ project_files' = files
             /\ conversation_history' = history
             /\ build' = [kind |-> kind, app_type |-> app_type,
                          is_iteration |-> is_iteration, user_input |-> user_input,
                          project_dir |-> abs_project_dir, original_dir |-> cwd,
                          child |-> IF start = "spawned_finishes" THEN "finishes"
                                    ELSE "hangs",
                          reused |-> reuse]
             /\ call' = c1

ChatWebsiteBuild ==
    \E llm \in LLMOutcomes :
      /\ AtPrompt
      /\ dispatch(analyze_request_with_llm(llm)) = "website_build"
      /\ \E user_input \in UserInputs, dt \in 0..1,
           llm2 \in IterationOutcomes, start \in StartOutcomes, search_ok \in BOOLEAN :
        /\ ChatEntry(user_input, llm, dt)
        /\ UNCHANGED <<q_available, consolidated>>
        /\ UNCHANGED <<cleanup_vars, command_vars, fn_call>>
        /\ LET h1 == add_message(add_message(conversation_history, "user", user_input),
                                 "user", user_input)
               request_info == analyze_request_with_llm(llm2)
               c == EntryCall("website_build", user_input, llm)
           IN  IF request_info.jtype # "object"
               THEN \* request_info.get raises AttributeError
                    /\ start = "spawned_finishes" /\ search_ok
                    /\ pc' = "crashed"
                    /\ conversation_history' = h1
                    /\ call' = [c EXCEPT !.raised = TRUE, !.outcome = "raised"]
                    /\ UNCHANGED <<last_project_folder, last_project_type, cwd,
                                   project_files, build>>
               ELSE LET is_iteration == dict_get(request_info, "is_iteration", FALSE)
                        kept == reset_last_project(is_iteration, last_project_folder,
                                                   last_project_type)
                    IN  IF ~q_available
                        THEN \* code is generated by the model instead
                             /\ start = "spawned_finishes"
                             /\ last_project_folder' = kept[1]
                             /\ last_project_type' = kept[2]
                             /\ conversation_history' =
                                    add_message(h1, "assistant", "Amazon Q CLI is not available")
                             /\ call' = [c EXCEPT
                                    !.outcome = "tool_unavailable",
                                    !.search_failed = ~search_ok,
                                    !.system_prompt =
                                        generation_system_prompt(web_search(search_ok))]
                             /\ pc' = "prompt"
                             /\ UNCHANGED <<cwd, project_files, build>>
                        ELSE /\ search_ok
                             /\ BuildStarts("website", "", is_iteration, user_input,
                                         website_project_dir(is_iteration, kept[1], kept[2]),
                                         now + dt, start,
                                         add_message(h1, "assistant", "I'll build the website"),
                                         c, kept[1], kept[2])

ChatAppBuild ==
    \E llm \in LLMOutcomes :
      /\ AtPrompt
      /\ dispatch(analyze_request_with_llm(llm)) = "app_build"
      /\ \E user_input \in UserInputs, dt \in 0..1,
           llm2 \in IterationOutcomes, start \in StartOutcomes, search_ok \in BOOLEAN :
        /\ ChatEntry(user_input, llm, dt)
        /\ UNCHANGED <<q_available, consolidated>>
        /\ UNCHANGED <<cleanup_vars, command_vars, fn_call>>
        /\ LET h1 == add_message(add_message(conversation_history, "user", user_input),
                                 "user", user_input)
               app_type == dict_get(analyze_request_with_llm(llm), "app_type", "web")
               request_info == analyze_request_with_llm(llm2)
               c == EntryCall("app_build", user_input, llm)
           IN  IF request_info.jtype # "object"
               THEN \* request_info.get raises AttributeError
                    /\ start = "spawned_finishes" /\ search_ok
                    /\ pc' = "crashed"
                    /\ conversation_history' = h1
                    /\ call' = [c EXCEPT !.raised = TRUE, !.outcome = "raised"]
                    /\ UNCHANGED <<last_project_folder, last_project_type, cwd,
                                   project_files, build>>
               ELSE LET is_iteration == dict_get(request_info, "is_iteration", FALSE)
                    IN  IF ~q_available
                        THEN /\ start = "spawned_finishes"
                             /\ conversation_history' =
                                    add_message(h1, "assistant", "Amazon Q CLI is not available")
                             /\ call' = [c EXCEPT
                                    !.outcome = "tool_unavailable",
                                    !.search_failed = ~search_ok,
                                    !.system_prompt =
                                        generation_system_prompt(web_search(search_ok))]
                             /\ pc' = "prompt"
                             /\ UNCHANGED <<last_project_folder, last_project_type, cwd,
                                            project_files, build>>
                        ELSE /\ search_ok
                             /\ BuildStarts("app", app_type, is_iteration, user_input,
                                         app_build_project_dir(is_iteration,
                                             last_project_folder, last_project_type),
                                         now + dt, start,
                                         add_message(h1, "assistant", "I'll build the application"),
                                         c, last_project_folder, last_project_type)

\* The tool's output ends (the script closed its end of the pipe and exited):
\* the streaming loop and process.wait() return, the cascade runs, build_*
\* returns and the handler finishes.  A child that never closes its output
\* leaves the loop blocked in readline: nothing bounds the wait.
QStreamEnds ==
    /\ pc = "q_stream"
    /\ build.child = "finishes"
    /\ \E run \in (IF build.kind = "website" THEN WebsiteToolRuns ELSE AppToolRuns) :
        LET left == tool_effect(project_files[build.project_dir], run)
            result == IF build.kind = "website" THEN website_cascade(left)
                      ELSE app_cascade(left)
            success == build_success(run.returncode, result, build.kind)
        IN  BuildReturns(build.kind, build.app_type, success, build.project_dir,
                         conversation_history,
                         build_exit_cwd(cwd, build.original_dir,
                                        IF result.raised THEN "except" ELSE "return"),
                         [project_files EXCEPT ![build.project_dir] = result.dir],
                         [call EXCEPT !.artifact = result.artifact,
                                      !.caught = result.raised,
                                      !.returncode = run.returncode,
                                      !.writes = IF result.artifact \in {"extracted", "synthesized"}
                                                 THEN 1 ELSE 0],
                         last_project_folder, last_project_type)
    /\ UNCHANGED <<q_available, now, requests, consolidated>>
    /\ UNCHANGED <<cleanup_vars, command_vars, fn_call>>

(***************************************************************************)
(* handle_static_website_deploy and deploy_consolidated_website.           *)
(***************************************************************************)

\* extract_website_details: names derived from the wall clock.
folder_name(website_name, ts) == website_name \o "-" \o ToString(ts)
main_bucket_name(ts) == "agentx-websites-" \o ToString(ts)

SeqRange(s) == {s[i] : i \in DOMAIN s}

\* The folders _generate_consolidated_website_config writes into main.tf:
\* folders = initial_folders or []; add_folder is appended when it is given
\* and not listed yet.  "" stands for None.
generate_consolidated_folders(initial_folders, add_folder) ==
    LET folders == initial_folders
    IN  IF add_folder # "" /\ add_folder \notin SeqRange(folders)
        THEN Append(folders, add_folder)
        ELSE folders

\* The folder list deploy_consolidated_website has generated: with a state
\* file present the new folder is passed as add_folder, otherwise as the
\* single initial folder.
deploy_consolidated_folders(tfstate_exists, folder) ==
    IF tfstate_exists
    THEN generate_consolidated_folders(<<>>, folder)
    ELSE generate_consolidated_folders(<<folder>>, "")

\* terraform apply of the consolidated configuration, with the one targeted
\* retry after the IAM-user error.
ApplyOutcomes == {"ok", "iam_error_retry_ok", "iam_error_retry_fails", "error"}
\* The apply step retrying, with the target, after any failure.
apply_results_retry_any(init_ok, apply) ==
    CASE ~init_ok -> <<>>
      [] apply = "ok" -> <<"ok">>
      [] apply = "iam_error_retry_ok" -> <<"iam_error", "ok">>
      [] apply = "iam_error_retry_fails" -> <<"iam_error", "error">>
      [] OTHER -> <<"error", "error">>

\* The results of the terraform apply runs of one call, in order: none when
\* init failed; a second, targeted run only after the IAM-user error text.
apply_results(init_ok, apply) ==
    CASE ~init_ok -> <<>>
      [] apply = "ok" -> <<"ok">>
      [] apply = "iam_error_retry_ok" -> <<"iam_error", "ok">>
      [] apply = "iam_error_retry_fails" -> <<"iam_error", "error">>
      [] OTHER -> <<"error">>

apply_succeeds(init_ok, apply) == init_ok /\ apply \in {"ok", "iam_error_retry_ok"}

\* WebsiteDeploymentOrchestrator._run_terraform_command: chdir into the
\* working directory, run the command, and chdir back in a finally clause,
\* whether the command completed or starting it raised.
TerraformRuns == {"completed", "raises"}
run_terraform_command_cwd(current, working_dir, outcome) ==
    LET saved_original_dir == current
        inside == working_dir
    IN  CASE outcome = "completed" -> saved_original_dir
          [] outcome = "raises" -> saved_original_dir
          [] OTHER -> inside


\* The upload loop: at most max_retries attempts, stopping at the first that
\* succeeds; `failures` attempts fail before one succeeds.
max_retries == 3

\* An upload loop that tests only the retry counter.
upload_attempts_counter_only(failures) ==
    [k \in 1..max_retries |-> IF k <= failures THEN "failed" ELSE "ok"]

\* The results of the aws s3 sync runs of the loop, in order.
upload_attempts(failures) ==
    [k \in 1..(IF failures < max_retries THEN failures + 1 ELSE max_retries) |->
        IF k <= failures THEN "failed" ELSE "ok"]

upload_success(failures) == failures < max_retries

\* What one deploy meets: whether the aws CLI answers, whether starting
\* terraform raises, the results of init and apply, how many uploads fail,
\* whether the outputs name a CloudFront distribution.
DeployRuns ==
    {r \in [aws_available : BOOLEAN, tf : TerraformRuns, init_ok : BOOLEAN,
            apply : ApplyOutcomes, failures : 0..max_retries, cloudfront_id : BOOLEAN] :
        LET applied == r.tf = "completed" /\ apply_succeeds(r.init_ok, r.apply)
        IN  /\ (~r.aws_available =>
                    r.tf = "completed" /\ r.init_ok /\ r.apply = "ok"
                    /\ r.failures = 0 /\ r.cloudfront_id)
            /\ (~applied => r.failures = 0 /\ r.cloudfront_id)
            /\ (r.tf = "raises" => r.init_ok /\ r.apply = "ok")}

ChatStaticDeploy ==
    \E llm \in LLMOutcomes :
      /\ AtPrompt
      /\ dispatch(analyze_request_with_llm(llm)) = "static_website_deploy"
      /\ \E user_input \in UserInputs, dt \in 0..1,
           website_name \in {"website"}, r \in DeployRuns :
        /\ ChatEntry(user_input, llm, dt)
        /\ LET h1 == add_message(add_message(conversation_history, "user", user_input),
                                 "user", user_input)
               c == EntryCall("static_website_deploy", user_input, llm)
               folder == folder_name(website_name, now + dt)
               bucket == main_bucket_name(now + dt)
               folders == deploy_consolidated_folders(consolidated.tfstate, folder)
               applied == r.tf = "completed" /\ apply_succeeds(r.init_ok, r.apply)
           IN  IF ~r.aws_available
               THEN /\ UNCHANGED cwd
                    /\ conversation_history' =
                           add_message(h1, "assistant", "AWS CLI is not available")
                    /\ call' = [c EXCEPT !.outcome = "aws_unavailable"]
                    /\ UNCHANGED consolidated
               ELSE /\ cwd' = run_terraform_command_cwd(
                                   cwd, cwd \o <<"terraform_deployments", "consolidated">>,
                                   r.tf)
                    /\ conversation_history' =
                           add_message(h1, "assistant", "I'll help you deploy a static website")
                    /\ consolidated' =
                           [exists |-> TRUE,
                            tfstate |-> consolidated.tfstate \/ applied,
                            website_folders |-> folders,
                            bucket_name |-> bucket,
                            deployed |-> IF applied THEN consolidated.deployed \cup {folder}
                                         ELSE consolidated.deployed,
                            bucket_names |-> consolidated.bucket_names \cup {bucket}]
                    /\ call' = [c EXCEPT
                           !.outcome = "returned",
                           !.folders_listed = folders,
                           !.bucket_name = bucket,
                           !.applies = IF r.tf = "raises" THEN <<>>
                                       ELSE apply_results(r.init_ok, r.apply),
                           !.uploads = IF applied THEN upload_attempts(r.failures)
                                       ELSE <<>>,
                           !.invalidations =
                               IF applied /\ r.cloudfront_id /\ upload_success(r.failures)
                               THEN 1 ELSE 0,
                           !.deploy_success = IF applied THEN "yes" ELSE "no"]
        /\ pc' = "prompt"
        /\ UNCHANGED <<last_project_folder, last_project_type, q_available,
                       project_files, build>>
        /\ UNCHANGED <<cleanup_vars, command_vars, fn_call>>

(***************************************************************************)
(* handle_app_deployment and dockerize_application.                        *)
(***************************************************************************)
\* dockerize_application: the directory test comes before the chdir; the
\* normal exit and the except handler chdir back.
DockerizeOutcomes == {"not_found", "pushed", "exception"}
dockerize_application_cwd(current, app_dir, outcome) ==
    LET saved_original_dir == current
        inside == app_dir
    IN  CASE outcome = "not_found" -> current
          [] outcome = "pushed" -> saved_original_dir
          [] outcome = "exception" -> saved_original_dir
          [] OTHER -> inside

\* How handle_app_deployment ends: a preflight check fails (return before
\* any work), an exception before the chdir into the Terraform project
\* (makedirs, a failed containerization, writing main.tf), terraform init or
\* apply fails after the chdir, terraform output fails, or the deployment
\* succeeds.  Every exit after the preflight chdirs to self.original_dir.
AppDeploymentOutcomes ==
    {"preflight_failed", "raised_before_chdir", "init_failed", "apply_failed",
     "output_failed", "deployed"}
app_deployment_cwd(current, self_original_dir, project_dir, outcome) ==
    CASE outcome = "preflight_failed" -> current
      [] outcome = "raised_before_chdir" -> self_original_dir
      [] outcome \in {"init_failed", "apply_failed"} -> self_original_dir
      [] outcome \in {"output_failed", "deployed"} -> self_original_dir
      [] OTHER -> project_dir

\* handle_app_deployment creating its Terraform directory before it looks
\* at the result of the pre-flight checks.
app_deployment_attempts_eager(outcome, has_app) ==
    <<"makedirs">>

\* What handle_app_deployment attempts, in order, up to the exit it takes:
\* nothing when a pre-flight check failed; otherwise the Terraform
\* directory, the containerization of the last app if there is one, and the
\* terraform commands up to the one that failed.
app_deployment_attempts(outcome, has_app) ==
    LET prepared == <<"makedirs">> \o (IF has_app THEN <<"dockerize">> ELSE <<>>)
    IN  CASE outcome = "preflight_failed" -> <<>>
          [] outcome = "raised_before_chdir" -> prepared
          [] outcome = "init_failed" -> prepared \o <<"terraform init">>
          [] outcome = "apply_failed" -> prepared \o <<"terraform init", "terraform apply">>
          [] OTHER -> prepared \o <<"terraform init", "terraform apply", "terraform output">>

ChatAppDeployment ==
    \E llm \in LLMOutcomes :
      /\ AtPrompt
      /\ dispatch(analyze_request_with_llm(llm)) = "app_deployment"
      /\ \E user_input \in UserInputs, dt \in 0..1,
           outcome \in AppDeploymentOutcomes, docker \in DockerizeOutcomes :
        /\ ChatEntry(user_input, llm, dt)
        /\ LET h1 == add_message(add_message(conversation_history, "user", user_input),
                                 "user", user_input)
               c == EntryCall("app_deployment", user_input, llm)
               has_app == last_project_folder # NoPath
                          /\ last_project_type \in {"app_web", "app_cli"}
               project_dir == cwd \o <<"terraform_deployments",
                                       "app-" \o ToString(now + dt)>>
               after_docker == IF has_app /\ outcome # "preflight_failed"
                               THEN dockerize_application_cwd(cwd, last_project_folder, docker)
                               ELSE cwd
           IN  /\ (outcome = "preflight_failed" \/ ~has_app => docker = "pushed")
               /\ (has_app /\ docker # "pushed" =>
                       outcome \in {"preflight_failed", "raised_before_chdir"})
               /\ conversation_history' =
                      add_message(h1, "assistant",
                                  IF outcome = "preflight_failed"
                                  THEN "AWS CLI, Terraform or Docker is not available"
                                  ELSE "I'll help you deploy your application")
               /\ cwd' = app_deployment_cwd(after_docker, original_dir, project_dir, outcome)
               /\ call' = [c EXCEPT !.outcome = outcome,
                                    !.attempts = app_deployment_attempts(outcome, has_app),
                                    !.deploy_success = IF outcome = "deployed" THEN "yes"
                                                       ELSE "no"]
        /\ pc' = "prompt"
        /\ UNCHANGED <<last_project_folder, last_project_type, q_available,
                       project_files, consolidated, build>>
        /\ UNCHANGED <<cleanup_vars, command_vars, fn_call>>

(***************************************************************************)
(* cleanup_terraform.py: the teardown script.                              *)
(***************************************************************************)
MaxDestroys == 2

DeploymentNames == {"app-1", "consolidated"}
deployment_path(name) == <<"terraform_deployments", name>>

\* What terraform.tfstate records: the lists extract_all_resource_ids fills.
NoResourceIds == [elastic_ips |-> <<>>, iam_policies |-> <<>>, iam_roles |-> <<>>]
RecordedResourceIds ==
    [elastic_ips |-> <<"eipalloc-1">>,
     iam_policies |-> <<"arn:aws:iam::1:policy/app">>,
     iam_roles |-> <<"app-role">>]

\* A deployment directory: whether it holds *.tf files, and its state file:
\* absent, not parseable, or a document recording resources.
TfStates ==
    {[file |-> "absent", resources |-> NoResourceIds],
     [file |-> "corrupt", resources |-> NoResourceIds],
     [file |-> "json", resources |-> NoResourceIds],
     [file |-> "json", resources |-> RecordedResourceIds]}
DirStates == [tf_files : BOOLEAN, tfstate : TfStates]

\* The directory trees the script is started in: each deployment directory
\* exists or not, under original_dir/terraform_deployments.
DirectoryTrees ==
    UNION {[{original_dir \o deployment_path(n) : n \in names} -> DirStates] :
               names \in SUBSET DeploymentNames}

\* The directory arguments: relative paths as find_terraform_deployments
\* returns them (os.walk('terraform_deployments') roots), and absolute paths
\* as the 'specific' command accepts them.
DirectoryArgs ==
    {RelPath(deployment_path(n)) : n \in DeploymentNames}
    \cup {AbsPath(original_dir \o deployment_path(n)) : n \in DeploymentNames}

path_exists(fs, at, p) == abspath(at, p) \in DOMAIN fs

\* extract_all_resource_ids(directory): the state file is looked up at
\* os.path.join(directory, 'terraform.tfstate'), resolved against the working
\* directory `at` of the moment of the call; a missing or unparseable file
\* gives empty lists.
extract_all_resource_ids(fs, at, directory) ==
    LET d == abspath(at, directory)
    IN  IF d \in DOMAIN fs /\ fs[d].tfstate.file = "json"
        THEN fs[d].tfstate.resources
        ELSE NoResourceIds

NoFrame ==
    [directory |-> RelPath(<<>>), original_dir |-> NoPath,
     resource_ids |-> NoResourceIds, child |-> "none"]

NoDestroy ==
    [n |-> 0, directory |-> RelPath(<<>>), cwd_before |-> NoPath,
     recorded |-> NoResourceIds, outcome |-> "none", result |-> "n/a",
     cleanups |-> <<>>, init_exit |-> "n/a", destroy_runs |-> 0,
     destroy_exit |-> "n/a"]

\* destroy_terraform_infrastructure without the os.chdir(original_dir) of
\* the timeout branch: the fault C5_DestroyRestoresCwd has to detect.
destroy_exit_cwd_unrestored(current, saved_original_dir, exit) ==
    CASE exit \in {"no_tf_files", "init_failed", "destroy_failed", "success", "exception"}
             -> saved_original_dir
      [] OTHER -> current

\* The working directory destroy_terraform_infrastructure leaves behind: the
\* missing-directory return comes before os.getcwd(); every other exit runs
\* os.chdir(original_dir).
DestroyExits ==
    {"missing", "no_tf_files", "init_failed", "destroy_failed", "timeout",
     "success", "exception"}
destroy_exit_cwd(current, saved_original_dir, exit) ==
    CASE exit = "missing" -> current
      [] exit = "no_tf_files" -> saved_original_dir
      [] exit = "init_failed" -> saved_original_dir
      [] exit \in {"destroy_failed", "timeout"} -> saved_original_dir
      [] exit = "success" -> saved_original_dir
      [] exit = "exception" -> saved_original_dir
      [] OTHER -> current

\* The calls of direct_cleanup_aws_resources the exit makes.
destroy_cleanups(exit, resource_ids) ==
    IF exit \in {"init_failed", "destroy_failed", "timeout"}
    THEN <<resource_ids>> ELSE <<>>

\* A timed-out destroy reported as a success.
destroy_result_timeout_true(exit) ==
    IF exit \in {"success", "timeout"} THEN "True" ELSE "False"

destroy_result(exit) == IF exit = "success" THEN "True" ELSE "False"

\* terraform destroy's effect on the state file when it succeeds.
destroyed(fs, d) ==
    [fs EXCEPT ![d].tfstate = [file |-> "json", resources |-> NoResourceIds]]

CleanupInit ==
    /\ cl_pc = "idle"
    /\ cl_cwd = original_dir
    /\ cl_fs \in DirectoryTrees
    /\ cl_frame = NoFrame
    /\ cl_call = NoDestroy

DestroyReturns(c, exit, current, frame, fs) ==
    /\ cl_pc' = "returned"
    /\ cl_cwd' = destroy_exit_cwd(current, frame.original_dir, exit)
    /\ cl_call' = [c EXCEPT !.outcome = exit, !.result = destroy_result(exit),
                            !.cleanups = destroy_cleanups(exit, frame.resource_ids)]
    /\ cl_frame' = NoFrame
    /\ cl_fs' = fs

\* How the part of destroy before the output is streamed can end, beyond
\* what the directory tree decides.
DestroyStarts == {"chdir_raises", "init_fails", "init_raises", "popen_raises", "spawned"}
\* The terraform destroy child: exits with 0 or not, closes its output but
\* keeps running, or keeps running with its output open.
DestroyChildren == {"exits_zero", "exits_nonzero", "closes_output_and_runs", "runs_on"}

\* destroy_terraform_infrastructure(directory) up to the streaming loop.
DestroyCalled ==
    \E directory \in DirectoryArgs, start \in DestroyStarts, child \in DestroyChildren :
        /\ cl_pc \in {"idle", "returned"}
        /\ cl_call.n < MaxDestroys
        /\ LET target == abspath(cl_cwd, directory)
               c == [NoDestroy EXCEPT
                        !.n = cl_call.n + 1, !.directory = directory,
                        !.cwd_before = cl_cwd,
                        !.recorded = extract_all_resource_ids(cl_fs, cl_cwd, directory)]
               inside == IF start = "chdir_raises" THEN cl_cwd ELSE target
               frame == [directory |-> directory, original_dir |-> cl_cwd,
                         resource_ids |-> extract_all_resource_ids(cl_fs, inside, directory),
                         child |-> child]
           IN  IF ~path_exists(cl_fs, cl_cwd, directory)
               THEN /\ start = "spawned" /\ child = "exits_zero"
                    /\ DestroyReturns(c, "missing", cl_cwd,
                                      [frame EXCEPT !.resource_ids = NoResourceIds], cl_fs)
               ELSE IF start = "chdir_raises"
               THEN /\ child = "exits_zero"
                    /\ DestroyReturns(c, "exception", inside,
                                      [frame EXCEPT !.resource_ids = NoResourceIds], cl_fs)
               ELSE IF ~cl_fs[target].tf_files
               THEN /\ start = "spawned" /\ child = "exits_zero"
                    /\ DestroyReturns(c, "no_tf_files", inside,
                                      [frame EXCEPT !.resource_ids = NoResourceIds], cl_fs)
               ELSE IF start \in {"init_fails", "init_raises", "popen_raises"}
               THEN /\ child = "exits_zero"
                    /\ DestroyReturns([c EXCEPT !.init_exit =
                                          CASE start = "init_fails" -> "nonzero"
                                            [] start = "init_raises" -> "n/a"
                                            [] OTHER -> "zero"],
                                      IF start = "init_fails" THEN "init_failed"
                                      ELSE "exception", inside, frame, cl_fs)
               ELSE /\ cl_pc' = "destroy_stream"
                    /\ cl_cwd' = inside
                    /\ cl_frame' = frame
                    /\ cl_call' = [c EXCEPT !.init_exit = "zero", !.destroy_runs = 1]
                    /\ UNCHANGED cl_fs
        /\ UNCHANGED <<agent_vars, command_vars, fn_call>>

\* The child closed its output: the readline loop ends and process.wait
\* (timeout=600) returns the exit status or raises TimeoutExpired.  While the
\* child keeps its output open the loop stays in readline and the timeout is
\* never armed.
DestroyStreamEnds ==
    /\ cl_pc = "destroy_stream"
    /\ cl_frame.child # "runs_on"
    /\ \E raises \in BOOLEAN :
        LET exit == IF raises THEN "exception"
                    ELSE CASE cl_frame.child = "exits_zero" -> "success"
                           [] cl_frame.child = "exits_nonzero" -> "destroy_failed"
                           [] OTHER -> "timeout"
            status == CASE cl_frame.child = "exits_zero" -> "zero"
                        [] cl_frame.child = "exits_nonzero" -> "nonzero"
                        [] OTHER -> IF raises THEN "n/a" ELSE "timeout"
        IN  DestroyReturns([cl_call EXCEPT !.destroy_exit = status],
                           exit, cl_cwd, cl_frame,
                           IF exit = "success" THEN destroyed(cl_fs, cl_cwd) ELSE cl_fs)
    /\ UNCHANGED <<agent_vars, command_vars, fn_call>>

(***************************************************************************)
(* The teardown script's subcommands: main(), cleanup_all, cleanup_project, *)
(* cleanup_specific, cleanup_orphaned_resources, list_command.  One run of *)
(* the script executes one subcommand; a run that returns is one step.     *)
(***************************************************************************)
\* Parsed JSON values of terraform.tfstate, and the marker of a raised
\* exception.
JString(s) == [jtype |-> "string", str |-> s]
JArray(items) == [jtype |-> "array", items |-> items]
Raised == [jtype |-> "raised"]
NoTag == [jtype |-> "no_tag"]

\* A state document with one resource holding one instance.
one_instance(attributes) ==
    JsonObject([resources |->
        JArray(<<JsonObject([instances |->
            JArray(<<JsonObject([attributes |-> attributes])>>)])>>)])

S_MALFORMED == "{\"resources\": ["
S_ARRAY == "[]"
S_UNTAGGED == "{\"resources\": [{\"instances\": [{\"attributes\": {}}]}]}"
S_ALPHA == "{\"resources\": [{\"instances\": [{\"attributes\": {\"tags\": {\"Project\": \"alpha\"}}}]}]}"

\* json.load on the state files above; S_MALFORMED raises JSONDecodeError.
state_documents ==
    (S_ARRAY :> JArray(<<>>)) @@
    ("{}" :>
         JsonObject(EmptyMembers)) @@
    ("{\"resources\": null}" :>
         JsonObject([resources |-> [jtype |-> "null"]])) @@
    ("{\"resources\": [\"aws_eip\"]}" :>
         JsonObject([resources |-> JArray(<<JString("aws_eip")>>)])) @@
    (S_UNTAGGED :> one_instance(JsonObject(EmptyMembers))) @@
    ("{\"resources\": [{\"instances\": [{\"attributes\": {\"tags\": null}}]}]}" :>
         one_instance(JsonObject([tags |-> [jtype |-> "null"]]))) @@
    ("{\"resources\": [{\"instances\": [{\"attributes\": {\"tags\": 7}}]}]}" :>
         one_instance(JsonObject([tags |-> [jtype |-> "number"]]))) @@
    ("{\"resources\": [{\"instances\": [{\"attributes\": {\"tags\": {\"Name\": \"web\"}}}]}]}" :>
         one_instance(JsonObject([tags |-> JsonObject([Name |-> JString("web")])]))) @@
    (S_ALPHA :> one_instance(JsonObject([tags |-> JsonObject([Project |-> JString("alpha")])])))

StateFiles == {"<absent>", S_MALFORMED} \cup DOMAIN state_documents

\* main.tf: absent, not readable as text, or one of two texts; the second
\* holds the assignment re.search(r'project_id\s+=\s+"([^"]+)"') matches.
M_PROJECT_BETA == "project_id          = \"beta\""
main_tf_project_ids == (M_PROJECT_BETA :> "beta")
MainTfFiles == {"<absent>", "<unreadable>", "resource \"aws_s3_bucket\" \"site\" {}", M_PROJECT_BETA}

\* v.get(key, default): AttributeError on a value that is no dict.
py_get(v, key, default) ==
    IF v.jtype # "object" THEN Raised
    ELSE IF key \in DOMAIN v.members THEN v.members[key] ELSE default

\* The body of the innermost loop: the instance's Project tag, NoTag when
\* the loop goes on.  `tags and ...` is false for None and for an empty
\* dict; 'Project' in 7 raises TypeError.
instance_project_tag(instance) ==
    LET attributes == py_get(instance, "attributes", JsonObject(EmptyMembers))
        tags == py_get(attributes, "tags", JsonObject(EmptyMembers))
    IN  CASE attributes = Raised -> Raised
          [] tags = Raised -> Raised
          [] tags.jtype = "null" -> NoTag
          [] tags.jtype = "object" ->
                IF "Project" \in DOMAIN tags.members THEN tags.members["Project"] ELSE NoTag
          [] OTHER -> Raised

RECURSIVE instances_project_tag(_)
instances_project_tag(instances) ==
    IF instances = <<>> THEN NoTag
    ELSE LET t == instance_project_tag(Head(instances))
         IN  IF t # NoTag THEN t ELSE instances_project_tag(Tail(instances))

\* for instance in resource.get('instances', []): iterating None raises.
resource_project_tag(resource) ==
    LET instances == py_get(resource, "instances", JArray(<<>>))
    IN  CASE instances = Raised -> Raised
          [] instances.jtype = "array" -> instances_project_tag(instances.items)
          [] OTHER -> Raised

RECURSIVE resources_project_tag(_)
resources_project_tag(resources) ==
    IF resources = <<>> THEN NoTag
    ELSE LET t == resource_project_tag(Head(resources))
         IN  IF t # NoTag THEN t ELSE resources_project_tag(Tail(resources))

state_project_tag(state_data) ==
    LET resources == py_get(state_data, "resources", JArray(<<>>))
    IN  CASE resources = Raised -> Raised
          [] resources.jtype = "array" -> resources_project_tag(resources.items)
          [] OTHER -> Raised

\* The try block of extract_project_id_from_state: the project_id of main.tf
\* first, then the Project tag of the state file; NoTag where it falls
\* through to the final return, Raised where an exception leaves the block.
extract_project_id_try(dir) ==
    LET from_main_tf ==
            CASE dir.main_tf = "<absent>" -> NoTag
              [] dir.main_tf = "<unreadable>" -> Raised
              [] dir.main_tf \in DOMAIN main_tf_project_ids ->
                    JString(main_tf_project_ids[dir.main_tf])
              [] OTHER -> NoTag
    IN  IF from_main_tf # NoTag THEN from_main_tf
        ELSE IF dir.tfstate = "<absent>" THEN NoTag
        ELSE IF dir.tfstate \notin DOMAIN state_documents THEN NoTag
        ELSE state_project_tag(state_documents[dir.tfstate])

\* extract_project_id_from_state without its except clause: the exception
\* reaches the caller.
extract_project_id_uncaught(dir) ==
    LET r == extract_project_id_try(dir)
    IN  CASE r = Raised -> "<raised>"
          [] r = NoTag -> "unknown"
          [] OTHER -> r.str

extract_project_id_from_state(dir) ==
    LET r == extract_project_id_try(dir)
    IN  CASE r = Raised -> "unknown"
          [] r = NoTag -> "unknown"
          [] OTHER -> r.str

\* The directory tree a run of the script scans from its working directory:
\* the directories under terraform_deployments that exist (none when the
\* root is missing or empty), each with its main.tf and its
\* terraform.tfstate, and possibly a directory "modules" outside the root
\* that holds a main.tf.
ScannedDirs == [main_tf : MainTfFiles, tfstate : StateFiles]
CommandTrees ==
    UNION {[names -> ScannedDirs] : names \in SUBSET DeploymentNames}
    \cup UNION {{t @@ ("modules" :> [main_tf |-> "resource \"aws_s3_bucket\" \"site\" {}",
                                     tfstate |-> "<absent>"]) :
                    t \in [names -> ScannedDirs]} : names \in SUBSET DeploymentNames}

\* The directories of a set in the order they are visited.
RECURSIVE walk(_)
walk(names) ==
    IF names = {} THEN <<>>
    ELSE LET n == CHOOSE x \in names : TRUE
         IN  <<n>> \o walk(names \ {n})

\* find_terraform_deployments: the directories os.walk finds under the root
\* with a state file or a .tf file, then the directory of every .tf file
\* glob('**/*.tf') finds from the working directory that is not listed yet.
find_terraform_deployments(tree) ==
    LET under_root == {d \in DOMAIN tree \cap DeploymentNames :
                          tree[d].tfstate # "<absent>" \/ tree[d].main_tf # "<absent>"}
        globbed == {d \in DOMAIN tree : tree[d].main_tf # "<absent>"}
    IN  walk(under_root) \o walk(globbed \ under_root)

\* The body of the loop of list_deployments_by_project that overwrites the
\* owner's list instead of appending to it.
group_add_overwrite(projects, project_id, directory) ==
    (project_id :> <<directory>>) @@ projects

\* The body of the loop of list_deployments_by_project: a new owner gets an
\* empty list, and the directory is appended to its owner's list.
group_add(projects, project_id, directory) ==
    IF project_id \in DOMAIN projects
    THEN [projects EXCEPT ![project_id] = Append(@, directory)]
    ELSE projects @@ (project_id :> <<directory>>)


RECURSIVE group_dirs(_, _, _)
group_dirs(tree, dirs, projects) ==
    IF dirs = <<>> THEN projects
    ELSE group_dirs(tree, Tail(dirs),
                    group_add(projects, extract_project_id_from_state(tree[Head(dirs)]),
                              Head(dirs)))

\* list_deployments_by_project: None when nothing was found, otherwise the
\* mapping from owner to directories.
list_deployments_by_project(tree) ==
    LET deployment_dirs == find_terraform_deployments(tree)
    IN  IF deployment_dirs = <<>>
        THEN [none |-> TRUE, projects |-> <<>>]
        ELSE [none |-> FALSE, projects |-> group_dirs(tree, deployment_dirs, <<>>)]

\* The command line argparse accepts: each subcommand has its own flags.
NoArgs ==
    [command |-> "none", yes |-> FALSE, force |-> FALSE, output_json |-> FALSE,
     directory |-> "", project_id |-> ""]
CommandArgs ==
    {[NoArgs EXCEPT !.command = "all", !.yes = y, !.force = f] : y, f \in BOOLEAN}
    \cup {[NoArgs EXCEPT !.command = "specific", !.directory = d, !.yes = y, !.force = f] :
              d \in DeploymentNames, y \in BOOLEAN, f \in BOOLEAN}
    \cup {[NoArgs EXCEPT !.command = "project", !.project_id = p, !.yes = y, !.force = f] :
              p \in {"alpha", "beta", "unknown"}, y \in BOOLEAN, f \in BOOLEAN}
    \cup {[NoArgs EXCEPT !.command = "orphaned", !.yes = y] : y \in BOOLEAN}
    \cup {[NoArgs EXCEPT !.command = "list", !.output_json = j] : j \in BOOLEAN}

\* What the user types at the prompt, and str.lower() on it.
Answers == {"yes", "YES", "no"}
lower(s) == IF s = "YES" THEN "yes" ELSE s

\* The prompt test that never aborts.
declined_never(confirmation) == FALSE

\* if confirmation.lower() != 'yes': abort.
declined(confirmation) == lower(confirmation) # "yes"

\* What one run of the script did: the prompt and its answer, the
\* directories destroy_terraform_infrastructure was called on, the calls of
\* direct_cleanup_aws_resources, and what list computed and printed.
NoRun ==
    [args |-> NoArgs, answer |-> "", prompted |-> FALSE, aborted |-> FALSE,
     destroys |-> <<>>, success_count |-> 0, failure_count |-> 0,
     direct_cleanups |-> 0, scanned |-> <<>>,
     owners |-> [d \in {} |-> ""],
     projects |-> [none |-> TRUE, projects |-> <<>>],
     printed |-> FALSE]

RECURSIVE count_exits(_, _, _)
count_exits(dirs, outs, exits) ==
    IF dirs = <<>> THEN 0
    ELSE (IF outs[Head(dirs)] \in exits THEN 1 ELSE 0)
         + count_exits(Tail(dirs), outs, exits)

\* The common tail of cleanup_all, cleanup_project and cleanup_specific: the
\* prompt unless args.yes, then one destroy per target (args.force is passed
\* on and not read there), then the final direct cleanup.
confirm_and_destroy(run, answer, targets, outs) ==
    LET asked == IF run.args.yes THEN run
                 ELSE [run EXCEPT !.prompted = TRUE, !.answer = answer]
        successes == count_exits(targets, outs, {"success"})
        fallbacks == count_exits(targets, outs,
                         {e \in DestroyExits : destroy_cleanups(e, NoResourceIds) # <<>>})
    IN  IF ~run.args.yes /\ declined(answer)
        THEN [asked EXCEPT !.aborted = TRUE]
        ELSE [asked EXCEPT !.destroys = targets,
                           !.success_count = successes,
                           !.failure_count = Len(targets) - successes,
                           !.direct_cleanups = fallbacks + 1]

CommandInit ==
    /\ cmd_pc = "start"
    /\ cmd_tree \in CommandTrees
    /\ cmd_run = NoRun

CommandReturns(run) ==
    /\ cmd_pc' = "done"
    /\ cmd_run' = run
    /\ UNCHANGED cmd_tree
    /\ UNCHANGED <<agent_vars, cleanup_vars, fn_call>>

\* The runs confirm_and_destroy can make over the targets: what the user
\* answers and how the destroy of each directory ends when it returns.
destroy_runs(run, targets) ==
    {confirm_and_destroy(run, answer, targets, outs) :
        answer \in Answers,
        outs \in [SeqRange(targets) ->
                     {"no_tf_files", "init_failed", "destroy_failed", "success"}]}

CleanupAll ==
    \E args \in CommandArgs :
      /\ cmd_pc = "start"
      /\ args.command = "all"
      /\ LET deployment_dirs == find_terraform_deployments(cmd_tree)
             run == [NoRun EXCEPT !.args = args, !.scanned = deployment_dirs]
         IN  IF deployment_dirs = <<>>
             THEN CommandReturns(run)
             ELSE \E r \in destroy_runs(run, deployment_dirs) : CommandReturns(r)

CleanupSpecific ==
    \E args \in CommandArgs :
      /\ cmd_pc = "start"
      /\ args.command = "specific"
      /\ LET run == [NoRun EXCEPT !.args = args]
         IN  IF args.directory \notin DOMAIN cmd_tree
             THEN CommandReturns(run)
             ELSE \E r \in destroy_runs(run, <<args.directory>>) : CommandReturns(r)

\* cleanup_project destroying every deployment that was found.
project_deployments_unfiltered(tree, deployment_dirs, project_id) ==
    deployment_dirs

\* The filter of cleanup_project: the directories whose extracted project id
\* equals args.project_id, in the order they were found.
project_deployments(tree, deployment_dirs, project_id) ==
    SelectSeq(deployment_dirs,
              LAMBDA d : extract_project_id_from_state(tree[d]) = project_id)

CleanupProject ==
    \E args \in CommandArgs :
      /\ cmd_pc = "start"
      /\ args.command = "project"
      /\ LET deployment_dirs == find_terraform_deployments(cmd_tree)
             owners == [d \in DOMAIN cmd_tree |->
                            extract_project_id_from_state(cmd_tree[d])]
             targets == project_deployments(cmd_tree, deployment_dirs, args.project_id)
             run == [NoRun EXCEPT !.args = args, !.scanned = deployment_dirs,
                                  !.owners = owners]
         IN  IF targets = <<>>
             THEN CommandReturns(run)
             ELSE \E r \in destroy_runs(run, targets) : CommandReturns(r)

CleanupOrphaned ==
    \E args \in CommandArgs :
      /\ cmd_pc = "start"
      /\ args.command = "orphaned"
      /\ \E answer \in Answers :
           LET run == [NoRun EXCEPT !.args = args]
               asked == IF args.yes THEN run
                        ELSE [run EXCEPT !.prompted = TRUE, !.answer = answer]
           IN  IF ~args.yes /\ declined(answer)
               THEN CommandReturns([asked EXCEPT !.aborted = TRUE])
               ELSE CommandReturns([asked EXCEPT !.direct_cleanups = 1])

\* list_command: nothing is printed for None or an empty mapping, or without
\* --output-json; otherwise the mapping is printed as a JSON object.
ListCommand ==
    \E args \in CommandArgs :
      /\ cmd_pc = "start"
      /\ args.command = "list"
      /\ LET projects == list_deployments_by_project(cmd_tree)
             run == [NoRun EXCEPT
                        !.args = args,
                        !.scanned = find_terraform_deployments(cmd_tree),
                        !.owners = [d \in DOMAIN cmd_tree |->
                                        extract_project_id_from_state(cmd_tree[d])],
                        !.projects = projects]
         IN  CommandReturns([run EXCEPT
                 !.printed = ~projects.none /\ args.output_json])

CommandIdle ==
    /\ cmd_pc = "exited"
    /\ cmd_tree = [d \in {} |-> [main_tf |-> "<absent>", tfstate |-> "<absent>"]]
    /\ cmd_run = NoRun

(***************************************************************************)
(* The deployment descriptor: extract_app_details, determine_container_port *)
(* and the container environment handle_app_deployment generates from them. *)
(* Each is a function of the request text and of the files of the last     *)
(* project; fn_call records one application of one of them.                *)
(***************************************************************************)
NoFnCall == [fn |-> "none"]

\* The request texts, each with the keywords of extract_app_details that are
\* substrings of user_input.lower().
keywords_in ==
    ("deploy my app" :> {}) @@
    ("Deploy my TODO app" :> {"todo"}) @@
    ("deploy the notes app with a mysql database" :> {"note", "database", "data", "mysql"}) @@
    ("deploy my app and persist to mongo" :> {"persist", "mongo"})

\* What extract_app_details reads: the request, whether the naming call to
\* the LLM returned (the function's `import re` follows it in the same try
\* block), and, when the last project is an app, what its files show:
\* .app_status in demo mode, a DB_ variable in an env file, the database
\* client a server file requires, a connection pattern in a server file, a
\* database dependency in package.json, a migrations directory, an .sql
\* file, server_demo.js.
DetailsInputs ==
    {i \in [user_input : DOMAIN keywords_in, llm_ok : BOOLEAN, has_project : BOOLEAN,
            demo_mode : BOOLEAN, env_db : BOOLEAN,
            server_import : {"none", "mysql2", "mongoose"},
            server_pattern : BOOLEAN, dependency : BOOLEAN, migrations : BOOLEAN,
            sql_file : BOOLEAN, server_demo : BOOLEAN] :
        ~i.has_project =>
            /\ ~i.demo_mode /\ ~i.env_db /\ i.server_import = "none"
            /\ ~i.server_pattern /\ ~i.dependency /\ ~i.migrations
            /\ ~i.sql_file /\ ~i.server_demo}

\* The tests of the heuristic layers in the order the function runs them.
\* The layers after the second run only for a last project that is an app.
\* The server-file layer calls re.search first: with `re` unbound (the
\* naming call raised) that raises, the file's except clause logs it, and
\* neither its import test nor its pattern test sets anything.
database_layers(i) ==
    LET words == keywords_in[i.user_input]
    IN  <<words \cap {"database", "db", "data", "storage", "persist", "store", "save"} # {},
          words \cap {"todo", "task", "note", "blog", "user", "auth", "login", "crud"} # {},
          i.has_project /\ i.demo_mode,
          i.has_project /\ i.env_db,
          i.has_project /\ i.llm_ok /\ i.server_import # "none",
          i.has_project /\ i.llm_ok /\ i.server_pattern,
          i.has_project /\ i.dependency,
          i.has_project /\ i.migrations,
          i.has_project /\ i.sql_file,
          i.has_project /\ i.server_demo>>

\* A layer that assigns the result of its test to the flag.
layer_assigns(needs_database, fired) == fired

\* Every layer has the form `if <test>: needs_database = True`.
layer_sets(needs_database, fired) == IF fired THEN TRUE ELSE needs_database

\* The value of needs_database after each layer, starting from False.
RECURSIVE needs_database_after(_, _)
needs_database_after(needs_database, layers) ==
    IF layers = <<>> THEN <<>>
    ELSE LET n == layer_sets(needs_database, Head(layers))
         IN  <<n>> \o needs_database_after(n, Tail(layers))

\* The descriptor extract_app_details returns, as far as the database is
\* concerned: db_type defaults to postgres, follows the request text when a
\* storage keyword is present, and the client library of the server file.
extract_app_details(i) ==
    LET words == keywords_in[i.user_input]
        layers == database_layers(i)
        after == needs_database_after(FALSE, layers)
        from_text == IF layers[1] /\ "mysql" \in words THEN "mysql"
                     ELSE IF layers[1] /\ "mongo" \in words /\ "postgres" \notin words
                     THEN "mongodb" ELSE "postgres"
        db_type == CASE layers[5] /\ i.server_import = "mysql2" -> "mysql"
                     [] layers[5] /\ i.server_import = "mongoose" -> "mongodb"
                     [] OTHER -> from_text
    IN  [needs_database |-> after[Len(after)], db_type |-> db_type,
         db_name |-> IF "todo" \in words THEN "app0000" ELSE "appdb",
         layers |-> layers, needs_database_after |-> after]

\* What the files of a project show to determine_container_port, each as
\* the port its regular expression finds, 0 when the file is absent,
\* unreadable or without a match: Dockerfile EXPOSE, docker-compose ports,
\* next/nuxt config, server.js, package.json, env files, other JS/TS files;
\* and whether a Procfile uses $PORT.
PortFindings ==
    [dockerfile : {0, 8080, 5000}, docker_compose : {0, 8080, 5000},
     next_config : {0, 8080}, server_js : {0, 8080, 5000}, package_json : {0, 5000},
     env_files : {0, 8080}, js_files : {0, 5000}, procfile : BOOLEAN]

RECURSIVE first_port(_)
first_port(found) ==
    IF found = <<>> THEN 3000
    ELSE IF Head(found) # 0 THEN Head(found) ELSE first_port(Tail(found))

\* determine_container_port with the server source examined before the
\* container configuration.
determine_container_port_source_first(p) ==
    first_port(<<p.server_js, p.dockerfile, p.docker_compose, p.next_config,
                 p.package_json, p.env_files, p.js_files,
                 IF p.procfile THEN 3000 ELSE 0>>)

\* determine_container_port: the first heuristic that finds a port returns
\* it; 3000 when none does.
determine_container_port(p) ==
    first_port(<<p.dockerfile, p.docker_compose, p.next_config, p.server_js,
                 p.package_json, p.env_files, p.js_files,
                 IF p.procfile THEN 3000 ELSE 0>>)

\* The container environment without the database variables.
container_environment_base(details) ==
    <<"NODE_ENV", "PORT", "APP_NAME">>

\* The names of the container environment handle_app_deployment generates.
container_environment(details) ==
    IF details.needs_database
    THEN <<"NODE_ENV", "PORT", "APP_NAME", "DB_TYPE", "DB_NAME", "DB_DEMO_MODE">>
    ELSE <<"NODE_ENV", "PORT", "APP_NAME">>

ExtractAppDetails ==
    /\ fn_call = NoFnCall
    /\ \E i \in DetailsInputs :
            /\ fn_call' = [fn |-> "extract_app_details", input |-> i,
                           out |-> extract_app_details(i)]
            /\ UNCHANGED <<agent_vars, cleanup_vars, command_vars>>

DetermineContainerPort ==
    /\ fn_call = NoFnCall
    /\ \E p \in PortFindings :
            /\ fn_call' = [fn |-> "determine_container_port", input |-> p,
                           out |-> determine_container_port(p)]
            /\ UNCHANGED <<agent_vars, cleanup_vars, command_vars>>

\* handle_app_deployment from extract_app_details to the generated
\* container environment, the pre-flight checks having passed.
AppDeploymentDetails ==
    /\ fn_call = NoFnCall
    /\ \E i \in DetailsInputs :
            LET app_details == extract_app_details(i)
            IN  /\ fn_call' = [fn |-> "handle_app_deployment", input |-> i,
                               out |-> [needs_database |-> app_details.needs_database,
                                        has_database |-> app_details.needs_database,
                                        db_type |-> app_details.db_type,
                                        db_name |-> app_details.db_name,
                                        container_environment |->
                                            container_environment(app_details)]]
                /\ UNCHANGED <<agent_vars, cleanup_vars, command_vars>>

(***************************************************************************)
(* The specifications.                                                     *)
(***************************************************************************)
AgentIdle ==
    /\ pc = "exited"
    /\ conversation_history = <<>>
    /\ last_project_folder = NoPath
    /\ last_project_type = "None"
    /\ cwd = original_dir
    /\ q_available = FALSE
    /\ now = 0
    /\ requests = 0
    /\ project_files = [d \in {} |-> EmptyDirectory]
    /\ consolidated = NoConsolidated
    /\ build = NoBuild
    /\ call = NoCall

CleanupIdle ==
    /\ cl_pc = "exited"
    /\ cl_cwd = original_dir
    /\ cl_fs = [d \in {} |-> [tf_files |-> FALSE]]
    /\ cl_frame = NoFrame
    /\ cl_call = NoDestroy

Init == AgentInit /\ CleanupIdle /\ CommandIdle /\ fn_call = NoFnCall

Next ==
    \/ MainExit
    \/ ChatRaises
    \/ ChatConversation
    \/ ChatQCli
    \/ ChatWebsiteBuild
    \/ ChatAppBuild
    \/ QStreamEnds
    \/ ChatStaticDeploy
    \/ ChatAppDeployment

Spec == Init /\ [][Next]_vars

\* The scheduler runs whatever step of the program is enabled.
FairSpec == Spec /\ WF_vars(Next)

InitCleanup == CleanupInit /\ AgentIdle /\ CommandIdle /\ fn_call = NoFnCall

NextCleanup ==
    \/ DestroyCalled
    \/ DestroyStreamEnds

SpecCleanup == InitCleanup /\ [][NextCleanup]_vars

FairSpecCleanup == SpecCleanup /\ WF_vars(NextCleanup)

InitCommand == CommandInit /\ AgentIdle /\ CleanupIdle /\ fn_call = NoFnCall

NextCommand ==
    \/ CleanupAll
    \/ CleanupSpecific
    \/ CleanupProject
    \/ CleanupOrphaned
    \/ ListCommand

SpecCommand == InitCommand /\ [][NextCommand]_vars

InitDetails == AgentIdle /\ CleanupIdle /\ CommandIdle /\ fn_call = NoFnCall

NextDetails ==
    \/ ExtractAppDetails
    \/ DetermineContainerPort
    \/ AppDeploymentDetails

SpecDetails == InitDetails /\ [][NextDetails]_vars

(***************************************************************************)
(* The properties.                                                         *)
(***************************************************************************)
\* A classifier outcome is malformed when the call failed, the text is not
\* JSON (empty text included), or the JSON is no object or has no 'type' key.
malformed(outcome) ==
    \/ outcome.api # "ok"
    \/ outcome.text \notin DOMAIN json_documents
    \/ json_documents[outcome.text].jtype # "object"
    \/ "type" \notin DOMAIN json_documents[outcome.text].members

\* C1: for every malformed classifier outcome and every failed call,
\* analyze_request_with_llm returns exactly {type: conversation, action: chat}.
C1_MalformedGivesDefault ==
    (call.handler # "none" /\ malformed(call.llm))
        => call.request_info = DefaultClassification

\* C2: chat() returns a response for every value the classifier returns, so
\* the loop of main() is never left by an exception raised in chat().
C2_ChatNeverRaises ==
    ~(pc = "crashed" /\ call.handler = "chat")

\* C3: the website_folders list of the consolidated main.tf names every
\* folder deployed so far.
C3_ConfigListsEveryFolder ==
    \A f \in consolidated.deployed : f \in SeqRange(consolidated.website_folders)

\* C4: a build handler that returns without a successful build (the build
\* failed, or the coding tool is unavailable) leaves last_project_folder and
\* last_project_type as they were before the call.
C4_PointerKeptOnFailure ==
    (/\ pc = "prompt"
     /\ call.handler \in {"website_build", "app_build"}
     /\ call.build_success # "yes")
        => /\ last_project_folder = call.folder_before
           /\ last_project_type = call.type_before

\* C5: when destroy_terraform_infrastructure has returned, by whichever
\* exit, the working directory is what it was before the call.
C5_DestroyRestoresCwd ==
    cl_pc = "returned" => cl_cwd = cl_call.cwd_before

\* A destroy of a relative directory that went into the directory, streamed
\* the child's output and returned through the timeout branch.
C5_Witness ==
    /\ cl_pc = "returned"
    /\ cl_call.outcome = "timeout"
    /\ ~cl_call.directory.abs
    /\ cl_cwd = original_dir

\* C6: when the tool's run left no HTML file in the project directory and
\* neither log holds extractable HTML, build_website has written exactly one
\* synthesized index.html.
C6_CascadeSynthesizes ==
    (/\ pc = "prompt"
     /\ call.handler = "website_build"
     /\ call.artifact \notin {"n/a", "tool"}
     /\ call.html_before = {}
     /\ project_files[call.project_dir].q_output # "codeblock"
     /\ project_files[call.project_dir].q_explicit # "diff_lines")
        => /\ call.artifact = "synthesized"
           /\ call.writes = 1
           /\ project_files[call.project_dir].html = {"index.html"}

\* C7: when the directory's terraform.tfstate records resource identifiers
\* and the init or the destroy step fails, direct_cleanup_aws_resources is
\* called once, with exactly the recorded identifiers.
C7_CleanupGetsRecordedIds ==
    (/\ cl_pc = "returned"
     /\ cl_call.outcome \in {"init_failed", "destroy_failed"}
     /\ cl_call.recorded = RecordedResourceIds)
        => cl_call.cleanups = <<cl_call.recorded>>

\* C8: a destroy whose child is running returns in the end, also when the
\* child never finishes and keeps its output open.
C8_DestroyReturns ==
    (cl_pc = "destroy_stream") ~> (cl_pc = "returned")

\* C9: a build whose tool subprocess is running returns in the end, also
\* when the subprocess never terminates.
C9_BuildReturns ==
    (pc = "q_stream") ~> (pc = "prompt")

\* C10: when a handler of the orchestrator has returned, the working
\* directory is what it was before the handler was called.
C10_HandlersRestoreCwd ==
    (pc = "prompt" /\ call.handler # "none") => cwd = call.cwd_before

\* A website build that went into the project directory, ran the tool, and
\* left build_website through its except handler.
C10_Witness ==
    /\ pc = "prompt"
    /\ call.handler = "website_build"
    /\ call.artifact = "none"
    /\ call.project_dir # NoPath
    /\ cwd = original_dir

\* C11: every static-site deploy of the session writes the same bucket_name
\* into the consolidated main.tf.
C11_OneBucketName ==
    Cardinality(consolidated.bucket_names) <= 1

\* The run asked for confirmation and nothing destructive followed: no
\* destroy_terraform_infrastructure call (terraform init/destroy) and no
\* direct_cleanup_aws_resources call.
nothing_destroyed ==
    cmd_run.destroys = <<>> /\ cmd_run.direct_cleanups = 0

\* C12 as stated: when the user is prompted and answers anything other than
\* the text 'yes', no terraform command and no direct AWS cleanup is run.
C12_NotYesAborts ==
    (cmd_pc = "done" /\ cmd_run.prompted /\ cmd_run.answer # "yes")
        => nothing_destroyed

\* C12 amended: when the user is prompted and the answer, lower-cased, is
\* not 'yes', the command aborts: no terraform command and no direct AWS
\* cleanup is run.
C12_DeclinedAborts ==
    (cmd_pc = "done" /\ cmd_run.prompted /\ lower(cmd_run.answer) # "yes")
        => cmd_run.aborted /\ nothing_destroyed

\* The 'all' command over two directories, prompted and answered 'no'.
C12_Witness ==
    /\ cmd_pc = "done"
    /\ cmd_run.args.command = "all"
    /\ Len(cmd_run.scanned) = 2
    /\ cmd_run.prompted
    /\ cmd_run.answer = "no"
    /\ cmd_run.aborted

\* C13: with --force alone the commands all, specific and project do not
\* ask for confirmation.
C13_ForceBypassesPrompt ==
    (/\ cmd_pc = "done"
     /\ cmd_run.args.command \in {"all", "specific", "project"}
     /\ cmd_run.args.force)
        => ~cmd_run.prompted

\* C17: the mapping list_deployments_by_project returns has exactly the
\* owners of the scanned directories as its keys, every scanned directory is
\* in its owner's list once and in no other list, and list --output-json
\* prints that mapping.
C17_ListPartitionsByOwner ==
    (cmd_pc = "done" /\ cmd_run.args.command = "list")
        => LET projects == cmd_run.projects.projects
               scanned == SeqRange(cmd_run.scanned)
           IN  /\ cmd_run.projects.none <=> scanned = {}
               /\ DOMAIN projects = {cmd_run.owners[d] : d \in scanned}
               /\ \A d \in scanned :
                    \A k \in DOMAIN projects :
                        Cardinality({i \in DOMAIN projects[k] : projects[k][i] = d})
                            = IF k = cmd_run.owners[d] THEN 1 ELSE 0
               /\ \A k \in DOMAIN projects : SeqRange(projects[k]) \subseteq scanned
               /\ (cmd_run.args.output_json /\ scanned # {}) => cmd_run.printed

\* list --output-json over one directory tagged Project=alpha in its state
\* file and one directory without a tag: the keys are alpha and unknown.
C17_Witness ==
    /\ cmd_pc = "done"
    /\ cmd_run.args.command = "list"
    /\ cmd_run.printed
    /\ DOMAIN cmd_tree = DeploymentNames
    /\ cmd_tree["app-1"] = [main_tf |-> "resource \"aws_s3_bucket\" \"site\" {}", tfstate |-> S_ALPHA]
    /\ cmd_tree["consolidated"] = [main_tf |-> "<absent>", tfstate |-> S_UNTAGGED]
    /\ DOMAIN cmd_run.projects.projects = {"alpha", "unknown"}

\* main.tf carries a project_id assignment.
carries_project_id(dir) == dir.main_tf \in DOMAIN main_tf_project_ids
\* The state file carries a Project tag.
carries_project_tag(dir) == dir.tfstate = S_ALPHA

\* C18: extract_project_id_from_state never raises; it returns 'unknown' for
\* a directory with neither a project_id in main.tf nor a Project tag in the
\* state file, whatever the state file holds, and the project_id of main.tf
\* in preference to a tag of the state file.
C18_ExtractNeverRaises ==
    (cmd_pc = "done" /\ cmd_run.args.command \in {"list", "project"})
        => \A d \in DOMAIN cmd_run.owners :
             /\ cmd_run.owners[d] # "<raised>"
             /\ (~carries_project_id(cmd_tree[d]) /\ ~carries_project_tag(cmd_tree[d]))
                    => cmd_run.owners[d] = "unknown"
             /\ carries_project_id(cmd_tree[d])
                    => cmd_run.owners[d] = main_tf_project_ids[cmd_tree[d].main_tf]

\* A listing over a directory whose state file is a JSON array and a
\* directory whose main.tf names project beta while its state is tagged alpha.
C18_Witness ==
    /\ cmd_pc = "done"
    /\ cmd_run.args.command = "list"
    /\ DOMAIN cmd_tree = DeploymentNames
    /\ cmd_tree["app-1"] = [main_tf |-> "resource \"aws_s3_bucket\" \"site\" {}", tfstate |-> S_ARRAY]
    /\ cmd_tree["consolidated"] = [main_tf |-> M_PROJECT_BETA, tfstate |-> S_ALPHA]
    /\ cmd_run.owners["app-1"] = "unknown"
    /\ cmd_run.owners["consolidated"] = "beta"

\* C14: within extract_app_details the flag needs_database never goes from
\* true back to false from one heuristic layer to the next, and the
\* descriptor returned has it true exactly when some layer fired.
C14_DatabaseNeedMonotonic ==
    fn_call.fn = "extract_app_details"
        => LET after == fn_call.out.needs_database_after
               layers == fn_call.out.layers
           IN  /\ \A k \in 1..(Len(after) - 1) : after[k] => after[k + 1]
               /\ \A k \in DOMAIN layers : layers[k] => after[k]
               /\ fn_call.out.needs_database <=> \E k \in DOMAIN layers : layers[k]

\* An early layer (the request names a todo app) fired and every later layer
\* found nothing in the project.
C14_Witness ==
    /\ fn_call.fn = "extract_app_details"
    /\ fn_call.input.has_project
    /\ fn_call.out.layers[2]
    /\ \A k \in 3..Len(fn_call.out.layers) : ~fn_call.out.layers[k]
    /\ fn_call.out.needs_database

\* C15: determine_container_port returns the container-configuration port
\* (Dockerfile EXPOSE, else docker-compose ports) whenever there is one,
\* whatever the server source says, and 3000 when no heuristic matches.
C15_ContainerConfigWins ==
    fn_call.fn = "determine_container_port"
        => LET p == fn_call.input
           IN  /\ p.dockerfile # 0 => fn_call.out = p.dockerfile
               /\ (p.dockerfile = 0 /\ p.docker_compose # 0)
                      => fn_call.out = p.docker_compose
               /\ (/\ p.dockerfile = 0 /\ p.docker_compose = 0 /\ p.next_config = 0
                   /\ p.server_js = 0 /\ p.package_json = 0 /\ p.env_files = 0
                   /\ p.js_files = 0)
                      => fn_call.out = 3000

\* A Dockerfile exposing 8080 next to a server.js listening on 5000.
C15_Witness ==
    /\ fn_call.fn = "determine_container_port"
    /\ fn_call.input.dockerfile = 8080
    /\ fn_call.input.server_js = 5000
    /\ fn_call.out = 8080

\* C16: when the request names a todo app, and whenever the descriptor has
\* needs_database true, handle_app_deployment sets has_database, has a
\* db_type, and puts DB_TYPE and DB_NAME into the container environment;
\* when needs_database is false the environment has no DB_ variable.
C16_DatabaseEnvironment ==
    fn_call.fn = "handle_app_deployment"
        => LET names == SeqRange(fn_call.out.container_environment)
               db_names == {"DB_TYPE", "DB_NAME", "DB_DEMO_MODE"}
           IN  /\ "todo" \in keywords_in[fn_call.input.user_input]
                      => fn_call.out.needs_database
               /\ fn_call.out.needs_database
                      => /\ fn_call.out.has_database
                         /\ fn_call.out.db_type \in {"postgres", "mysql", "mongodb"}
                         /\ {"DB_TYPE", "DB_NAME"} \subseteq names
               /\ ~fn_call.out.needs_database
                      => /\ ~fn_call.out.has_database
                         /\ names \cap db_names = {}

\* A todo request without any project files: postgres by default.
C16_Witness ==
    /\ fn_call.fn = "handle_app_deployment"
    /\ fn_call.input.user_input = "Deploy my TODO app"
    /\ ~fn_call.input.has_project
    /\ fn_call.out.has_database
    /\ fn_call.out.db_type = "postgres"
    /\ "DB_TYPE" \in SeqRange(fn_call.out.container_environment)

\* C19: when a pre-flight check of handle_app_deployment fails, the handler
\* answers with an explanation and attempts nothing: no Terraform directory,
\* no containerization, no terraform command; the working directory and the
\* last-project pointer stay as they were.
C19_PreflightAttemptsNothing ==
    (/\ pc = "prompt"
     /\ call.handler = "app_deployment"
     /\ call.outcome = "preflight_failed")
        => /\ call.attempts = <<>>
           /\ cwd = call.cwd_before
           /\ last_project_folder = call.folder_before
           /\ last_project_type = call.type_before
           /\ conversation_history[Len(conversation_history)] =
                  Message("assistant", "AWS CLI, Terraform or Docker is not available")

\* A deploy request that follows a successful app build and fails its
\* pre-flight checks.
C19_Witness ==
    /\ pc = "prompt"
    /\ call.handler = "app_deployment"
    /\ call.outcome = "preflight_failed"
    /\ call.folder_before # NoPath
    /\ call.type_before = "app_web"

\* C20: the pointer starts unset; after a successful website build it is the
\* build's project directory with kind 'website', after a successful app
\* build that directory with kind 'app_<app_type>'; the folder and the kind
\* are set together or not at all.
C20_PointerTracksBuilds ==
    /\ requests = 0 => (last_project_folder = NoPath /\ last_project_type = "None")
    /\ (pc = "prompt" /\ call.build_success = "yes" /\ call.handler = "website_build")
           => (last_project_folder = call.project_dir /\ last_project_type = "website")
    /\ (pc = "prompt" /\ call.build_success = "yes" /\ call.handler = "app_build")
           => /\ last_project_folder = call.project_dir
              /\ last_project_type = "app_" \o dict_get(call.request_info, "app_type", "web")
    /\ (last_project_folder = NoPath) <=> (last_project_type = "None")

\* A successful build of a command-line app right after start.
C20_Witness ==
    /\ pc = "prompt"
    /\ call.handler = "app_build"
    /\ call.build_success = "yes"
    /\ call.folder_before = NoPath
    /\ last_project_type = "app_cli"
    /\ last_project_folder = call.project_dir

\* C21: a build works in the existing project directory only when the
\* request is classified as an iteration and the last project is of the kind
\* being built: website for a website build, app_web for a web-app build,
\* app_cli for a CLI-app build.
C21_ReuseOnlyMatchingKind ==
    (pc = "q_stream" /\ build.reused)
        => /\ build.is_iteration
           /\ call.type_before = (IF build.kind = "website" THEN "website"
                                  ELSE "app_" \o build.app_type)

C23_OneTargetedRetry ==
    (pc = "prompt" /\ call.handler = "static_website_deploy")
        => LET a == call.applies
           IN  /\ Len(a) <= 2
               /\ Len(a) = 2 => a[1] = "iam_error"
               /\ (a # <<>> /\ a[1] = "error")
                      => (Len(a) = 1 /\ call.deploy_success = "no")
               /\ (Len(a) = 2 /\ a[2] # "ok") => call.deploy_success = "no"

\* The first apply met the IAM-user error and the targeted retry failed.
C23_Witness ==
    /\ pc = "prompt"
    /\ call.handler = "static_website_deploy"
    /\ call.applies = <<"iam_error", "error">>
    /\ call.deploy_success = "no"

\* C24: after a successful apply the upload is attempted at most three
\* times and never again after an attempt that succeeded; the cache
\* invalidation is issued only after a successful upload; when all three
\* attempts fail the call still reports success and the folder stays
\* deployed.
C24_BoundedUpload ==
    (pc = "prompt" /\ call.handler = "static_website_deploy")
        => LET u == call.uploads
           IN  /\ Len(u) <= 3
               /\ \A k \in DOMAIN u : u[k] = "ok" => k = Len(u)
               /\ u # <<>> => (call.applies # <<>>
                               /\ call.applies[Len(call.applies)] = "ok")
               /\ call.invalidations <= 1
               /\ call.invalidations = 1 => (u # <<>> /\ u[Len(u)] = "ok")
               /\ (Len(u) = 3 /\ \A k \in DOMAIN u : u[k] = "failed")
                      => /\ call.deploy_success = "yes"
                         /\ consolidated.tfstate
                         /\ call.folders_listed[1] \in consolidated.deployed

\* Three failed uploads after a successful apply.
C24_Witness ==
    /\ pc = "prompt"
    /\ call.handler = "static_website_deploy"
    /\ call.uploads = <<"failed", "failed", "failed">>
    /\ call.invalidations = 0
    /\ call.deploy_success = "yes"

\* C25: when the coding tool is unavailable and the web-search call fails,
\* the generation prompt is the plain one: it has no web-search section and
\* does not carry the text of the search error.
C25_PlainPromptAfterSearchFailure ==
    (/\ pc = "prompt"
     /\ call.handler \in {"website_build", "app_build"}
     /\ call.outcome = "tool_unavailable"
     /\ call.search_failed)
        => /\ ~call.system_prompt.search_section
           /\ call.system_prompt.web_info = ""

\* C26: every classification made while a last project is set gets the
\* context block: the pointer (kind and folder) and at most the six most
\* recent messages, each cut to 100 characters; whenever the pointer is set
\* the history is long enough for the block to be appended at the next
\* classification.
C26_ContextCarriesPointer ==
    /\ last_project_folder # NoPath => Len(conversation_history) + 1 > 2
    /\ call.folder_before # NoPath
           => \A n \in DOMAIN call.context :
                  LET context == call.context[n]
                  IN  /\ context.appended
                      /\ context.pointer = <<call.type_before, call.folder_before>>
                      /\ Len(context.recent_msgs) \in 1..6
                      /\ \A k \in DOMAIN context.recent_msgs :
                             Len(context.recent_msgs[k].content) <= 100

\* A build request made while a last project is set: both of its
\* classifications carry the pointer, and the request text, longer than 100
\* characters, appears cut in the window.
C26_Witness ==
    /\ call.folder_before # NoPath
    /\ Len(call.context) = 2
    /\ call.context[2].appended
    /\ call.context[2].pointer = <<"website", call.folder_before>>
    /\ Len(call.context[2].recent_msgs) = 5
    /\ Len(call.user_input) > 100
    /\ call.context[2].recent_msgs[5] = Message("user", SubSeq(call.user_input, 1, 100))

\* C27: with no directory under terraform_deployments (the root missing)
\* find_terraform_deployments returns the empty list whatever else the
\* working directory holds, and it never lists a directory twice.
C27_MissingRootGivesEmpty ==
    (cmd_pc = "done" /\ cmd_run.args.command \in {"all", "project", "list"})
        => /\ DOMAIN cmd_tree \cap DeploymentNames = {} => cmd_run.scanned = <<>>
           /\ \A i, j \in DOMAIN cmd_run.scanned :
                  cmd_run.scanned[i] = cmd_run.scanned[j] => i = j

\* C28: build_website and build_app return success false only when an
\* exception was caught inside them; a non-zero exit status of the coding
\* tool alone gives a success, with an HTML file (website) or a README.md
\* (app) in the project directory; the handler's recovery after a failed
\* build of an app is entered only after such an exception.
C28_FailureOnlyAfterException ==
    (/\ pc = "prompt"
     /\ call.handler \in {"website_build", "app_build"}
     /\ call.build_success # "n/a")
        => /\ call.build_success = "no" => call.caught
           /\ (call.returncode # 0 /\ ~call.caught)
                  => /\ call.build_success = "yes"
                     /\ IF call.handler = "website_build"
                        THEN project_files[call.project_dir].html # {}
                        ELSE project_files[call.project_dir].readme
           /\ conversation_history[Len(conversation_history)] =
                  Message("assistant", "Q CLI encountered an issue") => call.caught

\* The tool exited with status 1 and left nothing: the cascade wrote the
\* page and the build succeeded.
C28_Witness ==
    /\ pc = "prompt"
    /\ call.handler = "website_build"
    /\ call.returncode = 1
    /\ ~call.caught
    /\ call.artifact = "synthesized"
    /\ call.build_success = "yes"

\* C29: every request chat() processes is in the conversation history
\* exactly once, whichever handler it went to: the history holds as many
\* user messages as requests were made.
C29_UserTurnOnce ==
    pc \in {"prompt", "q_stream"}
        => Cardinality({k \in DOMAIN conversation_history :
                           conversation_history[k].role = "user"}) = requests

\* C30: the subcommand 'project <id>' passes to
\* destroy_terraform_infrastructure only directories whose extracted owner
\* is <id>; once confirmed it attempts every such directory that was found,
\* each once, whatever the earlier ones returned; the success and failure
\* counts sum to the number of those directories.
C30_ProjectDestroysOnlyOwned ==
    (cmd_pc = "done" /\ cmd_run.args.command = "project")
        => LET matching == {d \in SeqRange(cmd_run.scanned) :
                               cmd_run.owners[d] = cmd_run.args.project_id}
           IN  /\ \A k \in DOMAIN cmd_run.destroys :
                      cmd_run.owners[cmd_run.destroys[k]] = cmd_run.args.project_id
               /\ (~cmd_run.aborted /\ (cmd_run.args.yes \/ cmd_run.prompted))
                      => /\ SeqRange(cmd_run.destroys) = matching
                         /\ Len(cmd_run.destroys) = Cardinality(matching)
                         /\ cmd_run.success_count + cmd_run.failure_count
                                = Cardinality(matching)

\* Two directories of project alpha next to one of another owner: both were
\* attempted although neither destroy succeeded, the third was left alone.
C30_Witness ==
    /\ cmd_pc = "done"
    /\ cmd_run.args.command = "project"
    /\ cmd_run.args.project_id = "alpha"
    /\ Len(cmd_run.scanned) = 3
    /\ Len(cmd_run.destroys) = 2
    /\ cmd_run.failure_count = 2
    /\ cmd_run.owners["modules"] = "unknown"

====
